---- MODULE Spec2Model ----
\* A model of src/StockNoti.py: get_mergers_and_acquisitions() runs three RSS
\* fetchers one after another over a shared list `results`, then
\* de-duplicates the list by title, sorts it by the raw date string and
\* returns the table (or a fixed string when the list is empty).
\*
\* Text is modelled as Python models it: a string is a sequence of Unicode
\* code points, compared code point by code point.
EXTENDS Integers, Sequences, FiniteSets, TLC

VARIABLES pc, results, stdout, now, calls, reqs, status, feed, items, idx,
          due, ret

vars == <<pc, results, stdout, now, calls, reqs, status, feed, items, idx,
          due, ret>>

\* pc       where get_mergers_and_acquisitions stands: "start", the call of a
\*          fetcher ("fetch_reuters_ma", ...), the loop of a fetcher
\*          ("reuters_items", ...), "format" (line 138) or "done"
\* results  the list `results` the three fetchers append to
\* stdout   the lines printed
\* now      the wall clock, in seconds since 1970-01-01T00:00:00Z
\* status   response.status_code of the fetcher that is running
\* feed     soup.find_all("item") of the fetcher that is running
\* items    the local `items` of the fetcher that is running
\* idx      how many of `items` its loop has been through
\* ret      what the function has returned
\* History variables, read by the properties only:
\* calls    the fetchers called so far, in order
\* reqs     the URLs requested so far, in order, each named by its source
\* due      how many of the items the running fetcher has been through were to
\*          be kept when they were evaluated (Due)

-----------------------------------------------------------------------------
\* Bounds of the model

\* the longest feed a response carries, short of the feeds built to exceed the
\* item cap
MaxFeedLen == 1
\* by how many seconds the wall clock is seen to have moved on when it is read
\* again
TickStep == 1

-----------------------------------------------------------------------------
\* Program constants

\* items = soup.find_all("item")[:10]
ItemCap == 10
\* item.find("description").text[:200]
DescLimit == 200
\* (datetime.now(pub_dt.tzinfo) - pub_dt).days <= 7
WindowDays == 7

SecondsPerDay == 24 * 3600

\* "N/A"
NA == <<78, 47, 65>>
\* ""
EmptyStr == << >>

\* item.find(tag): None when the item has no such tag, else the tag, of which
\* the code reads the text. None is the empty tuple and a tag the 1-tuple of
\* its text.
NoTag == << >>
Tag(text) == <<text>>
Found(t) == t # NoTag
Text(t) == t[1]

\* keywords of fetch_marketwatch_ma
keywords == <<
    <<109, 101, 114, 103, 101, 114>>,
    <<97, 99, 113, 117, 105, 115, 105, 116, 105, 111, 110>>,
    <<97, 99, 113, 117, 105, 114, 101, 115>>,
    <<109, 101, 114, 103, 101, 115>>,
    <<116, 97, 107, 101, 111, 118, 101, 114>>,
    <<98, 117, 121, 111, 117, 116>>,
    <<102, 117, 115, 105, 243, 110>>,
    <<97, 100, 113, 117, 105, 115, 105, 99, 105, 243, 110>>
>>

\* "⚠️ No se encontraron fusiones y adquisiciones esta semana."
Sentinel == "No se encontraron fusiones y adquisiciones esta semana."

Reuters == "Reuters"
MarketWatch == "MarketWatch"
PRNewswire == "PR Newswire"
Sources == <<Reuters, MarketWatch, PRNewswire>>

-----------------------------------------------------------------------------
\* Strings

Min(a, b) == IF a <= b THEN a ELSE b

\* str.lower() on one code point (ASCII and Latin-1 capitals)
Lower(c) ==
    IF c \in 65..90 \/ (c \in 192..222 /\ c # 215) THEN c + 32 ELSE c

LowerStr(s) == [i \in 1..Len(s) |-> Lower(s[i])]

\* s[pos:].startswith(lit), pos counted from 1
StartsWithAt(s, pos, lit) ==
    /\ pos >= 1
    /\ pos + Len(lit) - 1 <= Len(s)
    /\ \A k \in 1..Len(lit) : s[pos + k - 1] = lit[k]

\* sub in s
Contains(sub, s) ==
    \E p \in 1..(Len(s) - Len(sub) + 1) : StartsWithAt(s, p, sub)

\* a < b for Python strings: the first differing code point decides, a proper
\* prefix is smaller
RECURSIVE StrLessFrom(_, _, _)
StrLessFrom(a, b, i) ==
    IF i > Len(b) THEN FALSE
    ELSE IF i > Len(a) THEN TRUE
    ELSE IF a[i] # b[i] THEN a[i] < b[i]
    ELSE StrLessFrom(a, b, i + 1)

StrLess(a, b) == StrLessFrom(a, b, 1)

StrGeq(a, b) == ~StrLess(a, b)

\* s[:n]
Truncate(s, n) == SubSeq(s, 1, Min(Len(s), n))

-----------------------------------------------------------------------------
\* datetime.strptime(date_str, "%a, %d %b %Y %H:%M:%S %z")

\* the result of a failed parse (ValueError)
ValueError == [ok |-> FALSE]

WeekdayAbbr == <<<<109, 111, 110>>, <<116, 117, 101>>, <<119, 101, 100>>,
                 <<116, 104, 117>>, <<102, 114, 105>>, <<115, 97, 116>>,
                 <<115, 117, 110>>>>

MonthAbbr == <<<<106, 97, 110>>, <<102, 101, 98>>, <<109, 97, 114>>,
               <<97, 112, 114>>, <<109, 97, 121>>, <<106, 117, 110>>,
               <<106, 117, 108>>, <<97, 117, 103>>, <<115, 101, 112>>,
               <<111, 99, 116>>, <<110, 111, 118>>, <<100, 101, 99>>>>

IsDigit(c) == c \in 48..57

DigitAt(s, p) == p >= 1 /\ p <= Len(s) /\ IsDigit(s[p])

\* a field of one or two digits at pos (%d, %H, %M, %S): its value and the
\* position after it; next = 0 when there is no digit
Num2(s, pos) ==
    IF ~DigitAt(s, pos) THEN [val |-> 0, next |-> 0]
    ELSE IF DigitAt(s, pos + 1)
         THEN [val |-> (s[pos] - 48) * 10 + (s[pos + 1] - 48), next |-> pos + 2]
         ELSE [val |-> s[pos] - 48, next |-> pos + 1]

\* exactly n digits at pos; next = 0 when they are not there
RECURSIVE NumN(_, _, _, _)
NumN(s, pos, n, acc) ==
    IF n = 0 THEN [val |-> acc, next |-> pos]
    ELSE IF ~DigitAt(s, pos) THEN [val |-> 0, next |-> 0]
    ELSE NumN(s, pos + 1, n - 1, acc * 10 + (s[pos] - 48))

\* the literal c at pos: the position after it, or 0
Lit(s, pos, c) ==
    IF pos >= 1 /\ pos <= Len(s) /\ s[pos] = c THEN pos + 1 ELSE 0

\* white space in the format matches one or more blanks: the position after
\* them, or 0
RECURSIVE SkipBlanks(_, _)
SkipBlanks(s, pos) ==
    IF pos >= 1 /\ pos <= Len(s) /\ s[pos] = 32
    THEN IF pos + 1 <= Len(s) /\ s[pos + 1] = 32
         THEN SkipBlanks(s, pos + 1)
         ELSE pos + 1
    ELSE 0

\* a name of the table at pos, case-insensitively: its index, or 0
NameAt(s, pos, table) ==
    LET l == LowerStr(s)
        hit == {n \in 1..Len(table) : pos >= 1 /\ StartsWithAt(l, pos, table[n])}
    IN  IF hit = {} THEN 0 ELSE CHOOSE n \in hit : TRUE

IsLeap(y) == (y % 4 = 0 /\ y % 100 # 0) \/ y % 400 = 0

DaysInMonth(y, m) ==
    IF m = 2 THEN (IF IsLeap(y) THEN 29 ELSE 28)
    ELSE IF m \in {4, 6, 9, 11} THEN 30 ELSE 31

\* days from 1970-01-01 to the civil date y-m-d
DaysFromCivil(y, m, d) ==
    LET yy  == IF m <= 2 THEN y - 1 ELSE y
        era == yy \div 400
        yoe == yy - era * 400
        mp  == IF m > 2 THEN m - 3 ELSE m + 9
        doy == (153 * mp + 2) \div 5 + d - 1
        doe == yoe * 365 + yoe \div 4 - yoe \div 100 + doy
    IN  era * 146097 + doe - 719468

\* %z at pos: sign, two digits of hours, an optional colon, two digits of
\* minutes; or Z
Offset(s, pos) ==
    IF pos >= 1 /\ pos <= Len(s) /\ s[pos] = 90
    THEN [secs |-> 0, next |-> pos + 1]
    ELSE IF ~(pos >= 1 /\ pos <= Len(s) /\ s[pos] \in {43, 45})
    THEN [secs |-> 0, next |-> 0]
    ELSE LET hh == NumN(s, pos + 1, 2, 0)
             p2 == IF hh.next # 0 /\ Lit(s, hh.next, 58) # 0
                   THEN hh.next + 1 ELSE hh.next
             mm == IF p2 = 0 THEN [val |-> 0, next |-> 0] ELSE NumN(s, p2, 2, 0)
             sign == IF s[pos] = 45 THEN -1 ELSE 1
         IN  IF mm.next = 0 \/ mm.val > 59
             THEN [secs |-> 0, next |-> 0]
             ELSE [secs |-> sign * (hh.val * 3600 + mm.val * 60), next |-> mm.next]

\* the parsed datetime as seconds since 1970-01-01T00:00:00Z, or ValueError
Strptime(s) ==
    LET wd  == NameAt(s, 1, WeekdayAbbr)
        p1  == IF wd = 0 THEN 0 ELSE Lit(s, 4, 44)
        p2  == SkipBlanks(s, p1)
        dd  == Num2(s, p2)
        p3  == SkipBlanks(s, dd.next)
        mo  == NameAt(s, p3, MonthAbbr)
        p4  == IF mo = 0 THEN 0 ELSE SkipBlanks(s, p3 + 3)
        yr  == NumN(s, p4, 4, 0)
        p5  == SkipBlanks(s, yr.next)
        hh  == Num2(s, p5)
        mi  == Num2(s, Lit(s, hh.next, 58))
        ss  == Num2(s, Lit(s, mi.next, 58))
        p6  == SkipBlanks(s, ss.next)
        off == Offset(s, p6)
    IN  IF /\ off.next = Len(s) + 1
           /\ yr.val >= 1
           /\ dd.val >= 1 /\ dd.val <= DaysInMonth(yr.val, mo)
           /\ hh.val <= 23 /\ mi.val <= 59 /\ ss.val <= 59
        THEN [ok |-> TRUE,
              ts |-> DaysFromCivil(yr.val, mo, dd.val) * SecondsPerDay
                     + hh.val * 3600 + mi.val * 60 + ss.val - off.secs]
        ELSE ValueError

\* (datetime.now(pub_dt.tzinfo) - pub_dt).days: timedelta.days is the floor of
\* the difference in days
AgeDays(t, pubTs) == (t - pubTs) \div SecondsPerDay

\* WithinWindow with a floor: an item dated after t is refused
WithinWindowNoFuture(t, pubTs) == AgeDays(t, pubTs) \in 0..WindowDays

\* (datetime.now(pub_dt.tzinfo) - pub_dt).days <= 7
WithinWindow(t, pubTs) == AgeDays(t, pubTs) <= WindowDays

-----------------------------------------------------------------------------
\* The feeds the three URLs may answer with

\* "XYZ Merger"
TitleXYZ == <<88, 89, 90, 32, 77, 101, 114, 103, 101, 114>>
\* "Acme acquires Beta"
TitleAcme == <<65, 99, 109, 101, 32, 97, 99, 113, 117, 105, 114, 101, 115, 32, 66, 101, 116, 97>>
\* "Markets up"
TitleMarkets == <<77, 97, 114, 107, 101, 116, 115, 32, 117, 112>>
\* "Deal"
DescDeal == <<68, 101, 97, 108>>
\* "http://a"
LinkA == <<104, 116, 116, 112, 58, 47, 47, 97>>
\* "Mon, 02 Nov 2026 10:00:00 +0000": two days old at Clock0
DateRecent == <<77, 111, 110, 44, 32, 48, 50, 32, 78, 111, 118, 32, 50, 48, 50, 54, 32, 49, 48, 58, 48, 48, 58, 48, 48, 32, 43, 48, 48, 48, 48>>
\* "Tue, 27 Oct 2026 12:00:01 +0000": one second short of eight days old at
\* Clock0
DateEdge == <<84, 117, 101, 44, 32, 50, 55, 32, 79, 99, 116, 32, 50, 48, 50, 54, 32, 49, 50, 58, 48, 48, 58, 48, 49, 32, 43, 48, 48, 48, 48>>
\* "Wed, 06 Jan 2027 09:30:00 +0100": two months in the future at Clock0
DateFuture == <<87, 101, 100, 44, 32, 48, 54, 32, 74, 97, 110, 32, 50, 48, 50, 55, 32, 48, 57, 58, 51, 48, 58, 48, 48, 32, 43, 48, 49, 48, 48>>
\* "Tue, 03 Nov 2026 08:15:00 -0500": a day old at Clock0
DateRecent2 == <<84, 117, 101, 44, 32, 48, 51, 32, 78, 111, 118, 32, 50, 48, 50, 54, 32, 48, 56, 58, 49, 53, 58, 48, 48, 32, 45, 48, 53, 48, 48>>
\* "2026-11-03T10:00:00Z" (ISO-8601)
DateIso == <<50, 48, 50, 54, 45, 49, 49, 45, 48, 51, 84, 49, 48, 58, 48, 48, 58, 48, 48, 90>>

Item(t, d, l, p) == [title |-> t, description |-> d, link |-> l, pubDate |-> p]

ItemRecent == Item(Tag(TitleXYZ), Tag(DescDeal), Tag(LinkA), Tag(DateRecent))
ItemEdge == Item(NoTag, NoTag, NoTag, Tag(DateEdge))
ItemFuture == Item(Tag(TitleXYZ), Tag(DescDeal), Tag(EmptyStr), Tag(DateFuture))
ItemOffTopic == Item(Tag(TitleMarkets), Tag(DescDeal), Tag(LinkA), Tag(DateRecent2))
ItemIso == Item(Tag(TitleAcme), Tag(DescDeal), Tag(LinkA), Tag(DateIso))
ItemNoDate == Item(Tag(TitleAcme), Tag(DescDeal), Tag(LinkA), NoTag)

Items == {ItemRecent, ItemEdge, ItemFuture, ItemOffTopic, ItemIso, ItemNoDate}

\* feeds of at most MaxFeedLen items
ShortFeeds == UNION {[1..n -> Items] : n \in 0..MaxFeedLen}

\* ItemCap copies of the item f and then the item t: one item more than the
\* item cap
Overlong(f, t) == [i \in 1..(ItemCap + 1) |-> IF i <= ItemCap THEN f ELSE t]

\* the feeds longer than the item cap
LongFeeds ==
    {Overlong(ItemNoDate, t) : t \in Items} \cup {Overlong(ItemRecent, ItemRecent)}

Feeds == ShortFeeds \cup LongFeeds

\* response.status_code of an answered request
StatusCodes == {200, 503}

\* what requests.get and BeautifulSoup can do with one request: requests.get
\* raises (raised names the exception), or it returns a response with a status
\* and a body that the parser rejects (parses = FALSE) or reads as a list of
\* items
Responses ==
    {[raised |-> e, status |-> 0, parses |-> FALSE, feed |-> << >>] :
        e \in {"Timeout", "ConnectionError"}}
    \cup
    {[raised |-> "", status |-> st, parses |-> FALSE, feed |-> << >>] :
        st \in StatusCodes}
    \cup
    {[raised |-> "", status |-> st, parses |-> TRUE, feed |-> f] :
        st \in StatusCodes, f \in Feeds}

\* the wall clock when the run starts: 2026-11-04T12:00:00Z
Clock0 == DaysFromCivil(2026, 11, 4) * SecondsPerDay + 12 * 3600

\* what datetime.now() may return when the clock last read n: the clock never
\* goes back
ClockReadings(n) == {t \in {Clock0, Clock0 + TickStep} : t >= n}

-----------------------------------------------------------------------------
\* State

\* the value of ret before the function returns
NotReturned == [type |-> "NotReturned", value |-> << >>]

ErrorLine(src, what) == [kind |-> "error", src |-> src, what |-> what]

Init ==
    /\ pc = "start"
    /\ results = << >>
    /\ stdout = << >>
    /\ now = Clock0
    /\ calls = << >>
    /\ reqs = << >>
    /\ status = 0
    /\ feed = << >>
    /\ items = << >>
    /\ idx = 0
    /\ due = 0
    /\ ret = NotReturned

\* print("Buscando fusiones y adquisiciones de la semana...")
Start ==
    /\ pc = "start"
    /\ stdout' = Append(stdout, [kind |-> "banner", src |-> "", what |-> ""])
    /\ pc' = "fetch_reuters_ma"
    /\ UNCHANGED <<results, now, calls, reqs, status, feed, items, idx, due,
                   ret>>

\* Slice without the [:10]
SliceAll(src, f) == f

\* soup.find_all("item")[:10] for Reuters and PR Newswire,
\* soup.find_all("item") for MarketWatch
Slice(src, f) ==
    IF src = MarketWatch THEN f ELSE SubSeq(f, 1, Min(Len(f), ItemCap))

\* the locals of a fetcher that has returned
NoLocals ==
    /\ status' = 0
    /\ feed' = << >>
    /\ items' = << >>
    /\ idx' = 0
    /\ due' = 0

\* AfterExcept if the exception left the fetcher: the run ends there
AfterExceptRaise(next) == "crashed"

\* except Exception as e: print(...): the exception is caught, the fetcher
\* returns and the run goes on at `next`
AfterExcept(next) == next

\* the call of fetcher src up to its loop: one requests.get, BeautifulSoup,
\* find_all; an exception of either ends the fetcher in its except clause
Request(src, at, loop, next) ==
    /\ pc = at
    /\ calls' = Append(calls, src)
    /\ reqs' = Append(reqs, src)
    /\ \E r \in Responses :
         IF r.raised # ""
         THEN /\ stdout' = Append(stdout, ErrorLine(src, r.raised))
              /\ pc' = AfterExcept(next)
              /\ NoLocals
         ELSE IF ~r.parses
         THEN /\ stdout' = Append(stdout, ErrorLine(src, "ParserError"))
              /\ pc' = AfterExcept(next)
              /\ NoLocals
         ELSE /\ status' = r.status
              /\ feed' = r.feed
              /\ items' = Slice(src, r.feed)
              /\ idx' = 0
              /\ due' = 0
              /\ pc' = loop
              /\ UNCHANGED stdout
    /\ UNCHANGED <<results, now, ret>>

\* TextOrNA with "" as the default
TextOrEmpty(t) == IF Found(t) THEN Text(t) ELSE EmptyStr

\* item.find(tag).text if item.find(tag) else "N/A"
TextOrNA(t) == IF Found(t) THEN Text(t) ELSE NA

\* item.find("description").text[:200] if item.find("description") else "N/A"
Description(item) ==
    IF Found(item.description)
    THEN Truncate(Text(item.description), DescLimit)
    ELSE NA

\* date_str = pub_date.text if pub_date else ""
DateStr(item) == IF Found(item.pubDate) THEN Text(item.pubDate) ELSE EmptyStr

\* title = item.find("title").text if item.find("title") else ""
TitleOrEmpty(item) == IF Found(item.title) THEN Text(item.title) ELSE EmptyStr

\* any(kw.lower() in title.lower() for kw in keywords)
MatchesKeyword(title) ==
    \E low \in {LowerStr(title)} :
        \E kw \in {LowerStr(keywords[k]) : k \in 1..Len(keywords)} :
            Contains(kw, low)

\* the record fetch_reuters_ma and fetch_prnewswire_ma append
Record(src, item) ==
    [fuente |-> src,
     titulo |-> TextOrNA(item.title),
     descripcion |-> Description(item),
     url |-> TextOrNA(item.link),
     fecha |-> DateStr(item)]

\* the record fetch_marketwatch_ma appends
RecordMW(item) ==
    [fuente |-> MarketWatch,
     titulo |-> TitleOrEmpty(item),
     descripcion |-> Description(item),
     url |-> TextOrNA(item.link),
     fecha |-> DateStr(item)]

\* Strptime over the date texts the feeds carry, worked out once
StrptimeOf == [s \in {DateStr(i) : i \in Items} |-> Strptime(s)]

\* Keeps if the except clause of the inner try appended the record instead of
\* passing
KeepsUnparsed(item, t) ==
    LET pub_dt == StrptimeOf[DateStr(item)]
    IN  ~pub_dt.ok \/ WithinWindow(t, pub_dt.ts)

\* whether the inner try of the loop body appends: strptime succeeds and the
\* item is within the window at time t; a ValueError is passed over
Keeps(item, t) ==
    LET pub_dt == StrptimeOf[DateStr(item)]
    IN  pub_dt.ok /\ WithinWindow(t, pub_dt.ts)

\* whether fetch_marketwatch_ma takes the item as a candidate
Candidate(src, item) ==
    src = MarketWatch => MatchesKeyword(TitleOrEmpty(item))

\* whether the item is one the fetcher is to keep when it evaluates it at
\* time t: its date parses, it is less than WindowDays + 1 days old (its age in
\* whole days is at most WindowDays), and for MarketWatch its title holds a
\* keyword
Due(src, item, t) ==
    LET pub_dt == StrptimeOf[DateStr(item)]
    IN  /\ pub_dt.ok
        /\ t - pub_dt.ts < (WindowDays + 1) * SecondsPerDay
        /\ src = MarketWatch => MatchesKeyword(TitleOrEmpty(item))

\* one pass of the loop body of fetcher src over items[idx]; the clock is read
\* by datetime.now()
LoopBody(src, loop) ==
    /\ pc = loop
    /\ idx < Len(items)
    /\ \E t \in ClockReadings(now) :
         LET item == items[idx + 1]
         IN  /\ now' = t
             /\ due' = due + (IF Due(src, item, t) THEN 1 ELSE 0)
             /\ IF Candidate(src, item) /\ Keeps(item, t)
                THEN results' = Append(results,
                            IF src = MarketWatch THEN RecordMW(item)
                            ELSE Record(src, item))
                ELSE UNCHANGED results
    /\ idx' = idx + 1
    /\ UNCHANGED <<pc, stdout, calls, reqs, status, feed, items, ret>>

\* the loop is exhausted and the fetcher returns
Return(loop, next) ==
    /\ pc = loop
    /\ idx = Len(items)
    /\ pc' = next
    /\ NoLocals
    /\ UNCHANGED <<results, stdout, now, calls, reqs, ret>>

fetch_reuters_ma ==
    Request(Reuters, "fetch_reuters_ma", "reuters_items", "fetch_marketwatch_ma")
reuters_item == LoopBody(Reuters, "reuters_items")
reuters_return == Return("reuters_items", "fetch_marketwatch_ma")

fetch_marketwatch_ma ==
    Request(MarketWatch, "fetch_marketwatch_ma", "marketwatch_items",
            "fetch_prnewswire_ma")
marketwatch_item == LoopBody(MarketWatch, "marketwatch_items")
marketwatch_return == Return("marketwatch_items", "fetch_prnewswire_ma")

fetch_prnewswire_ma ==
    Request(PRNewswire, "fetch_prnewswire_ma", "prnewswire_items", "format")
prnewswire_item == LoopBody(PRNewswire, "prnewswire_items")
prnewswire_return == Return("prnewswire_items", "format")

-----------------------------------------------------------------------------
\* The aggregation

\* pd.DataFrame(results): the rows labelled 0, 1, ...
DataFrame(rs) == [i \in 1..Len(rs) |-> [index |-> i - 1, row |-> rs[i]]]

\* the rows of df at the positions of the set keep, in order
RECURSIVE Pick(_, _, _)
Pick(df, keep, i) ==
    IF i > Len(df) THEN << >>
    ELSE IF i \in keep THEN <<df[i]>> \o Pick(df, keep, i + 1)
    ELSE Pick(df, keep, i + 1)

\* DropDuplicates with keep="last"
DropDuplicatesKeepLast(df) ==
    Pick(df,
         {i \in 1..Len(df) :
            \A j \in (i + 1)..Len(df) : df[j].row.titulo # df[i].row.titulo},
         1)

\* df.drop_duplicates(subset=["titulo"]): of the rows with one title the first
\* stays, under its label
DropDuplicates(df) ==
    Pick(df,
         {i \in 1..Len(df) :
            \A j \in 1..(i - 1) : df[j].row.titulo # df[i].row.titulo},
         1)

\* whether df is in descending order of fecha
SortedDesc(df) ==
    \A i \in 1..(Len(df) - 1) : StrGeq(df[i].row.fecha, df[i + 1].row.fecha)

\* SortValues without ascending=False
SortValuesAscending(df) ==
    {[i \in 1..Len(df) |-> df[p[i]]] :
        p \in {q \in [1..Len(df) -> 1..Len(df)] :
                 /\ \A a, b \in 1..Len(df) : a # b => q[a] # q[b]
                 /\ \A i \in 1..(Len(df) - 1) :
                      StrGeq(df[q[i + 1]].row.fecha, df[q[i]].row.fecha)}}

\* df.sort_values("fecha", ascending=False): the orders of the rows of df that
\* are descending in fecha (the default sort is not stable, so rows of equal
\* fecha may come out in any order)
SortValues(df) ==
    {[i \in 1..Len(df) |-> df[p[i]]] :
        p \in {q \in [1..Len(df) -> 1..Len(df)] :
                 /\ \A a, b \in 1..Len(df) : a # b => q[a] # q[b]
                 /\ SortedDesc([i \in 1..Len(df) |-> df[q[i]]])}}

\* df.reset_index(drop=True)
ResetIndex(df) == [i \in 1..Len(df) |-> [index |-> i - 1, row |-> df[i].row]]

\* the lines printed for the table
Listing(df) ==
    <<[kind |-> "count", src |-> "", what |-> Len(df)]>> \o
    [i \in 1..Len(df) |->
        [kind |-> "row", src |-> df[i].row.fuente,
         what |-> <<df[i].index + 1, df[i].row.fecha, df[i].row.titulo,
                    df[i].row.url>>]]

\* NoResults off by one
NoResultsUpToOne(rs) == Len(rs) <= 1

\* if not results
NoResults(rs) == rs = << >>

\* the end of get_mergers_and_acquisitions: the sentinel string, or the table
\* de-duplicated, sorted, re-indexed and printed
Format ==
    /\ pc = "format"
    /\ IF NoResults(results)
       THEN /\ ret' = [type |-> "str", value |-> Sentinel]
            /\ UNCHANGED stdout
       ELSE \E deduped \in {DropDuplicates(DataFrame(results))} :
              \E sorted \in SortValues(deduped) :
                \E df \in {ResetIndex(sorted)} :
                   /\ ret' = [type |-> "DataFrame", value |-> df]
                   /\ stdout' = stdout \o Listing(df)
    /\ pc' = "done"
    /\ UNCHANGED <<results, now, calls, reqs, status, feed, items, idx, due>>

Next ==
    \/ Start
    \/ fetch_reuters_ma
    \/ reuters_item
    \/ reuters_return
    \/ fetch_marketwatch_ma
    \/ marketwatch_item
    \/ marketwatch_return
    \/ fetch_prnewswire_ma
    \/ prnewswire_item
    \/ prnewswire_return
    \/ Format

Spec == Init /\ [][Next]_vars

\* the program runs on until it returns
FairSpec == Spec /\ WF_vars(Next)

-----------------------------------------------------------------------------
\* Vocabulary of the properties

Loops == {"reuters_items", "marketwatch_items", "prnewswire_items"}

InLoop == pc \in Loops

\* the fetcher whose loop is running
Cur ==
    IF pc = "reuters_items" THEN Reuters
    ELSE IF pc = "marketwatch_items" THEN MarketWatch
    ELSE PRNewswire

\* the loop is exhausted: the fetcher is about to return
Exhausted == InLoop /\ idx = Len(items)

\* the positions of the records of source src in results
RecordsOf(src) == {i \in 1..Len(results) : results[i].fuente = src}

\* how many records source src has appended
FromSrc(src) == Cardinality(RecordsOf(src))

\* the error lines source src has printed
ErrorLinesOf(src) ==
    {i \in 1..Len(stdout) : stdout[i].kind = "error" /\ stdout[i].src = src}

\* how many requests went to the URL of source src
RequestsTo(src) == Cardinality({i \in 1..Len(reqs) : reqs[i] = src})

\* the position of source src in the order the fetchers are called in
SrcRank(src) == CHOOSE k \in 1..Len(Sources) : Sources[k] = src

\* a is a prefix of b
IsPrefix(a, b) == Len(a) <= Len(b) /\ SubSeq(b, 1, Len(a)) = a

\* the function has returned a table
ReturnedTable == pc = "done" /\ ret.type = "DataFrame"

\* the publication time a date string stands for, for date strings that parse
TimeOf(date) == Strptime(date).ts

\* the step appends a record
Appends == Len(results') = Len(results) + 1

-----------------------------------------------------------------------------
\* C1: every record appended has a publication timestamp that parses and that
\* is at most exactly 7 days (7 * 24 * 3600 seconds) older than the time at
\* which its fetcher evaluated the item.
C1_AppendedWithinSevenDaysExactly ==
    [][Appends =>
        LET r == results'[Len(results')]
        IN  /\ Strptime(r.fecha).ok
            /\ now' - TimeOf(r.fecha) <= WindowDays * SecondsPerDay]_vars

C3_TransportFailureYieldsNothing ==
    /\ \A src \in {Reuters, MarketWatch, PRNewswire} :
         (\E i \in ErrorLinesOf(src) :
             stdout[i].what \in {"Timeout", "ConnectionError"})
         => /\ FromSrc(src) = 0
            /\ Cardinality(ErrorLinesOf(src)) = 1
            /\ RequestsTo(src) = 1
    /\ (InLoop /\ status \notin 200..299)
         => /\ FromSrc(Cur) = 0
            /\ Cardinality(ErrorLinesOf(Cur)) = 1
            /\ RequestsTo(Cur) = 1

\* C4: in the returned table no two rows have the same title, every title of
\* results has a row, the row of a title is the first record of results with
\* that title, and its source is the earliest fetcher (in the order Reuters,
\* MarketWatch, PR Newswire) that reported the title.
C4_FirstRecordOfEachTitleKept ==
    ReturnedTable =>
        LET df == ret.value
        IN  /\ \A a, b \in 1..Len(df) :
                 a # b => df[a].row.titulo # df[b].row.titulo
            /\ \A i \in 1..Len(results) :
                 \E a \in 1..Len(df) : df[a].row.titulo = results[i].titulo
            /\ \A a \in 1..Len(df) :
                 \E i \in 1..Len(results) :
                    /\ df[a].row = results[i]
                    /\ \A j \in 1..Len(results) :
                         results[j].titulo = results[i].titulo
                         => /\ j >= i
                            /\ SrcRank(results[j].fuente)
                                 >= SrcRank(df[a].row.fuente)

\* C4 witness: a table was returned for results in which two sources report
\* one title.
C4_Witness ==
    /\ ReturnedTable
    /\ \E i, j \in 1..Len(results) :
         /\ results[i].titulo = results[j].titulo
         /\ results[i].fuente # results[j].fuente

\* C5: the function returns the sentinel string exactly when none of the three
\* fetchers appended a record, and otherwise a table of at least one row.
C5_SentinelIffNothingAppended ==
    pc = "done" =>
        IF \A src \in {Reuters, MarketWatch, PRNewswire} : FromSrc(src) = 0
        THEN ret.type = "str" /\ ret.value = Sentinel
        ELSE ret.type = "DataFrame" /\ Len(ret.value) >= 1

\* C5 witness: the sentinel was returned though no fetcher failed: all three
\* read their feeds and kept nothing.
C5_Witness ==
    /\ pc = "done"
    /\ ret.type = "str"
    /\ \A i \in 1..Len(stdout) : stdout[i].kind # "error"

\* C6: the fetchers are called once each in the order Reuters, MarketWatch, PR
\* Newswire; no step removes or changes a record already appended; whatever the
\* fetchers meet, the run ends, and it ends with all three called and the
\* sentinel string or the table returned.
C6_NoFailureIsFatal ==
    /\ [](IsPrefix(calls, Sources))
    /\ [][IsPrefix(results, results')]_vars
    /\ [](pc = "done" => calls = Sources /\ ret.type \in {"str", "DataFrame"})
    /\ <>(pc = "done")

\* C6 witness: the run ended with a table holding a Reuters record and a PR
\* Newswire record although the request of MarketWatch in between failed.
C6_Witness ==
    /\ ReturnedTable
    /\ ErrorLinesOf(MarketWatch) # {}
    /\ \E a, b \in 1..Len(ret.value) :
         /\ ret.value[a].row.fuente = Reuters
         /\ ret.value[b].row.fuente = PRNewswire

\* the item has no pubDate, or its pubDate is the ISO-8601 text
BadDate(item) == ~Found(item.pubDate) \/ Text(item.pubDate) = DateIso

\* C7: the loop body run on an item whose pubDate is missing or is not in the
\* RFC-822 format appends nothing, prints nothing and goes on to the next item
\* of the same feed.
C7_BadDateSilentlyDropped ==
    [][(InLoop /\ idx < Len(items) /\ BadDate(items[idx + 1]))
        => /\ results' = results
           /\ stdout' = stdout
           /\ pc' = pc
           /\ items' = items
           /\ idx' = idx + 1]_vars

\* C7 witness: a fetcher has just appended the record of an item that follows,
\* in the same feed, an item with a bad date.
C7_Witness ==
    /\ InLoop
    /\ idx >= 2
    /\ BadDate(items[idx - 1])
    /\ results # << >>
    /\ results[Len(results)].fuente = Cur
    /\ results[Len(results)].fecha = DateStr(items[idx])
    /\ FromSrc(Cur) = 1

\* C8: the rows of the returned table are in descending order of the raw date
\* string, compared as strings, and are labelled 0, 1, 2, ... without gaps.
C8_SortedByRawDateString ==
    ReturnedTable =>
        LET df == ret.value
        IN  /\ \A i \in 1..(Len(df) - 1) :
                 StrGeq(df[i].row.fecha, df[i + 1].row.fecha)
            /\ \A i \in 1..Len(df) : df[i].index = i - 1

\* C8 witness: a returned table that is not in chronological order: a row
\* published earlier stands before a row published later.
C8_Witness ==
    /\ ReturnedTable
    /\ \E i \in 1..(Len(ret.value) - 1) :
         TimeOf(ret.value[i].row.fecha) < TimeOf(ret.value[i + 1].row.fecha)

\* C9: in the record appended for an item, every one of title, description,
\* link and publication date that the item lacks is "N/A".
C9_MissingFieldsAreNA ==
    [][(InLoop /\ Appends) =>
        LET item == items[idx + 1]
            r == results'[Len(results')]
        IN  /\ ~Found(item.title) => r.titulo = NA
            /\ ~Found(item.description) => r.descripcion = NA
            /\ ~Found(item.link) => r.url = NA
            /\ ~Found(item.pubDate) => r.fecha = NA]_vars

\* C9 witness: a record whose title, description and link are all "N/A".
C9_Witness ==
    \E i \in 1..Len(results) :
        /\ results[i].titulo = NA
        /\ results[i].descripcion = NA
        /\ results[i].url = NA

\* C10: the loop body run on a candidate item whose date parses and lies after
\* the time of the evaluation appends the record of the item.
C10_FutureItemsAppended ==
    [][(/\ InLoop
        /\ idx < Len(items)
        /\ Found(items[idx + 1].pubDate)
        /\ Text(items[idx + 1].pubDate) = DateFuture
        /\ Cur = MarketWatch => MatchesKeyword(TitleOrEmpty(items[idx + 1])))
        => /\ TimeOf(DateFuture) > now'
           /\ Appends
           /\ results'[Len(results')].fecha = DateFuture
           /\ results'[Len(results')].fuente = Cur]_vars

\* C10 witness: MarketWatch has appended a record published after the present
\* time.
C10_Witness ==
    \E i \in 1..Len(results) :
        /\ results[i].fuente = MarketWatch
        /\ TimeOf(results[i].fecha) > now + 30 * SecondsPerDay

====
